---- MODULE Spec2Model ----
(***************************************************************************)
(* Newsletter signup automation: the three orchestrators of the repository *)
(*   variant "A"  automation/ NewsletterAutomation driven by               *)
(*                AutomationRunner.runSingleSite                           *)
(*   variant "B"  src/BQLRunner.ts BQLNewsletterAutomation.run             *)
(*   variant "I"  src/index.ts NewsletterAutomation.run                    *)
(*   variant "E"  automation/ NewsletterAutomation.executeAutomation       *)
(*                called on an object that was never initialized           *)
(* and the element resolution of automation/selectors.ts.                  *)
(* The page and the driver are the environment: what the page holds is     *)
(* drawn in Init, it changes only where a click or a scroll can change it, *)
(* and a driver call may throw while the fault budget lasts.               *)
(***************************************************************************)
EXTENDS Integers, Sequences, FiniteSets, TLC

\* ---------------------------------------------------------------- bounds
MaxRetries == 2      \* retryAttempts / maxRetries is drawn from 1..MaxRetries
MaxFaults == 2       \* driver calls that may throw in one run
MaxFrames == 2       \* iframes of a page of the resolver specification
MaxPat == 2          \* a page matches only the first MaxPat patterns of a strategy
MaxMatches == 2      \* matching (context, strategy, pattern) triples of a page
MaxSites == 3        \* sites of a batch
MaxBoxes == 2        \* checkboxes of a page of the resolver specification

\* ------------------------------------------------------- strategy tables
\* A selector strategy is its primary pattern followed by its fallbacks;
\* patterns are named by their position in selectorsToTry.
emailInputStrategies == << [fallbacks |-> 11], [fallbacks |-> 3] >>
submitButtonStrategies == << [fallbacks |-> 7] >>
checkboxStrategies == << [fallbacks |-> 3] >>

SelectorsToTry(strategy) == 1 .. (1 + strategy.fallbacks)

Roles == {"email", "submit"}

StrategiesOf(role) ==
  IF role = "email" THEN emailInputStrategies ELSE submitButtonStrategies

\* ------------------------------------------------------------ the page
\* What one pattern finds in one context:
\*   "absent"  no element in the DOM of that context
\*   "hidden"  an element in the DOM that never reaches the wanted state
\*   "nobox"   an element that is ready but whose boundingBox() is null
\*   "ok"      an element that is ready and has a bounding box
\* A page is the set of its matches; every other triple is "absent".
Status == {"absent", "hidden", "nobox", "ok"}

NoElement == [kind |-> "none", idx |-> 0, s |-> 0, p |-> 0, st |-> "absent"]

Contexts ==
  {<<"main", 0>>} \cup {<<"frame", i>> : i \in 1 .. MaxFrames} \cup {<<"shadow", 0>>}

MatchesOf(role) ==
  { [kind |-> c[1], idx |-> c[2], s |-> s, p |-> p, st |-> st] :
      c \in Contexts,
      s \in 1 .. Len(StrategiesOf(role)),
      p \in 1 .. MaxPat,
      st \in Status \ {"absent"} }

SameKey(a, b) == a.kind = b.kind /\ a.idx = b.idx /\ a.s = b.s /\ a.p = b.p

RECURSIVE PagesUpTo(_, _)
PagesUpTo(role, n) ==
  IF n = 0 THEN {{}}
  ELSE LET smaller == PagesUpTo(role, n - 1)
       IN smaller \cup
          { pg \cup {m} : pg \in smaller, m \in MatchesOf(role) }

WellFormed(pg) == \A a, b \in pg : SameKey(a, b) => a = b

Pages(role) == { pg \in PagesUpTo(role, MaxMatches) : WellFormed(pg) }

Lookup(pg, kind, idx, s, p) ==
  LET hit == { m \in pg : m.kind = kind /\ m.idx = idx /\ m.s = s /\ m.p = p }
  IN IF hit = {} THEN NoElement
     ELSE CHOOSE m \in hit : TRUE

\* ------------------------------------------------- SelectorEngine
\* isElementReady: waitFor({state}) succeeded.
isElementReady(el) == el.st \in {"nobox", "ok"}

\* A search that keeps the last pattern with a ready, boxed match.
FindLastElement(pg, s, p, last) ==
  LET boxed == { q \in p .. last : Lookup(pg, "main", 0, s, q).st = "ok" }
  IN IF boxed = {} THEN NoElement
     ELSE Lookup(pg, "main", 0, s, CHOOSE q \in boxed : \A r \in boxed : r <= q)

\* A page as findAllElements sees it: the elements each pattern of the
\* checkbox strategy matches.
CheckboxPages == [SelectorsToTry(checkboxStrategies[1]) -> SUBSET (1 .. MaxBoxes)]

\* A search that collects the matches of every pattern.
findAllMerged(pg, strategy) == UNION { pg[p] : p \in SelectorsToTry(strategy) }

\* findAllElements, the loop over the fallbacks: the matches of the first
\* fallback that has any; `break` ends the loop.
RECURSIVE FallbackMatchesFrom(_, _, _)
FallbackMatchesFrom(pg, p, last) ==
  IF p > last THEN {}
  ELSE IF Cardinality(pg[p]) > 0 THEN pg[p]
  ELSE FallbackMatchesFrom(pg, p + 1, last)

\* findAllElements: the matches of the primary pattern, and the fallbacks only
\* when the primary gave none.
findAllElements(pg, strategy) ==
  LET locators == IF Cardinality(pg[1]) > 0 THEN pg[1] ELSE {}
  IN IF Cardinality(locators) = 0
     THEN FallbackMatchesFrom(pg, 2, 1 + strategy.fallbacks)
     ELSE locators

\* findElement: the first pattern of selectorsToTry whose first match is
\* ready and has a bounding box, on the main page.
RECURSIVE FindElementFrom(_, _, _, _)
FindElementFrom(pg, s, p, last) ==
  IF p > last THEN NoElement
  ELSE LET element == Lookup(pg, "main", 0, s, p)
       IN IF isElementReady(element) /\ element.st = "ok"
          THEN element
          ELSE FindElementFrom(pg, s, p + 1, last)

findElement(pg, role, s) ==
  FindElementFrom(pg, s, 1, 1 + StrategiesOf(role)[s].fallbacks)

\* findInIframes: iframes in document order; in each, the primary pattern and
\* then the fallbacks; readiness alone decides, no bounding box is asked for.
RECURSIVE FindInFrameFrom(_, _, _, _, _)
FindInFrameFrom(pg, i, s, p, last) ==
  IF p > last THEN NoElement
  ELSE LET element == Lookup(pg, "frame", i, s, p)
       IN IF isElementReady(element)
          THEN element
          ELSE FindInFrameFrom(pg, i, s, p + 1, last)

\* An iframe search that gives up after the first iframe.
FindInFirstIframeOnly(pg, role, s, i) ==
  IF i > 1 THEN NoElement
  ELSE FindInFrameFrom(pg, i, s, 1, 1 + StrategiesOf(role)[s].fallbacks)

RECURSIVE FindInIframesFrom(_, _, _, _)
FindInIframesFrom(pg, role, s, i) ==
  IF i > MaxFrames THEN NoElement
  ELSE LET found == FindInFrameFrom(pg, i, s, 1, 1 + StrategiesOf(role)[s].fallbacks)
       IN IF found # NoElement THEN found
          ELSE FindInIframesFrom(pg, role, s, i + 1)

findInIframes(pg, role, s) == FindInIframesFrom(pg, role, s, 1)

\* findInShadowDOM: the in-page script walks the document and its shadow
\* roots for the primary pattern, then for each fallback.
RECURSIVE FindInShadowFrom(_, _, _, _)
FindInShadowFrom(pg, s, p, last) ==
  IF p > last THEN NoElement
  ELSE LET main == Lookup(pg, "main", 0, s, p)
           deep == Lookup(pg, "shadow", 0, s, p)
       IN IF main # NoElement THEN main
          ELSE IF deep # NoElement THEN deep
          ELSE FindInShadowFrom(pg, s, p + 1, last)

findInShadowDOM(pg, role, s) ==
  FindInShadowFrom(pg, s, 1, 1 + StrategiesOf(role)[s].fallbacks)

\* What page.evaluate resolves to when the in-page function returns a DOM
\* node: a node is not serializable, and the driver build decides whether the
\* caller sees undefined or a placeholder value; neither is a Locator.
EvalNodeModes == {"undefined", "value"}

Truthy(el, evalNodes) == el # NoElement /\ evalNodes = "value"

\* ------------------------------------- NewsletterAutomation (variant A)
\* What a call of findEmailInput / findSubmitButton delivers: the element, the
\* place pushed onto strategiesUsed, whether the caller holds a Locator, and
\* the passes the call went through.
NotFound ==
  [el |-> NoElement, where |-> "none", locator |-> FALSE,
   searched |-> <<"main", "iframes", "shadow">>]

RECURSIVE MainFrom(_, _, _)
MainFrom(pg, role, s) ==
  IF s > Len(StrategiesOf(role)) THEN NoElement
  ELSE LET element == findElement(pg, role, s)
       IN IF element # NoElement THEN element ELSE MainFrom(pg, role, s + 1)

RECURSIVE IframesFrom(_, _, _)
IframesFrom(pg, role, s) ==
  IF s > Len(StrategiesOf(role)) THEN NoElement
  ELSE LET element == findInIframes(pg, role, s)
       IN IF element # NoElement THEN element ELSE IframesFrom(pg, role, s + 1)

RECURSIVE ShadowFrom(_, _, _, _)
ShadowFrom(pg, role, s, evalNodes) ==
  IF s > Len(StrategiesOf(role)) THEN NoElement
  ELSE LET element == findInShadowDOM(pg, role, s)
       IN IF Truthy(element, evalNodes) THEN element
          ELSE ShadowFrom(pg, role, s + 1, evalNodes)

\* A resolution that searches the iframes before the main page.
LocateFramesFirst(pg, role, evalNodes) ==
  LET onMain == MainFrom(pg, role, 1)
      inFrame == IframesFrom(pg, role, 1)
  IN IF inFrame # NoElement
       THEN [el |-> inFrame, where |-> "iframe", locator |-> TRUE,
             searched |-> <<"iframes">>]
     ELSE IF onMain # NoElement
       THEN [el |-> onMain, where |-> "main page", locator |-> TRUE,
             searched |-> <<"iframes", "main">>]
     ELSE NotFound

\* The three passes shared by findEmailInput and findSubmitButton: every
\* strategy on the main page, then every strategy in the iframes, then every
\* strategy through the shadow-DOM script.
Locate(pg, role, evalNodes) ==
  LET onMain == MainFrom(pg, role, 1)
      inFrame == IframesFrom(pg, role, 1)
      inShadow == ShadowFrom(pg, role, 1, evalNodes)
  IN IF onMain # NoElement
       THEN [el |-> onMain, where |-> "main page", locator |-> TRUE,
             searched |-> <<"main">>]
     ELSE IF inFrame # NoElement
       THEN [el |-> inFrame, where |-> "iframe", locator |-> TRUE,
             searched |-> <<"main", "iframes">>]
     ELSE IF inShadow # NoElement
       THEN [el |-> inShadow, where |-> "shadow DOM", locator |-> FALSE,
             searched |-> <<"main", "iframes", "shadow">>]
     ELSE NotFound

findEmailInput(pg, evalNodes) == Locate(pg, "email", evalNodes)

\* A submit-button resolution that runs the shadow-DOM pass only.
findSubmitButtonShadowOnly(pg, evalNodes) ==
  LET inShadow == ShadowFrom(pg, "submit", 1, evalNodes)
  IN IF inShadow # NoElement
       THEN [el |-> inShadow, where |-> "shadow DOM", locator |-> FALSE,
             searched |-> <<"shadow">>]
     ELSE NotFound

findSubmitButton(pg, evalNodes) == Locate(pg, "submit", evalNodes)

\* ---------------------------------------------------------------- state
VARIABLES
  cfg,        \* the run's input: variant, maxRetries, evalNodes (driver build), page0
  pc,         \* where the run stands
  attempt,    \* the loop variable of the retry loop
  idx,        \* the loop variable of the inner loop in progress
  browser,    \* this.browser: "none", "open" or "closed"
  page,       \* the page: modal, email matches, submit matches
  result,     \* strategiesUsed, errors, diagnostics
  faults,     \* driver calls that have thrown so far
  ret,        \* what the entry point is about to deliver: "none", "true", "false", "throw"
  outcome,    \* what the caller got: "running", "success", "failure", "raised"
  obs,        \* what an observer of the driver calls has counted
  rv          \* resolver specification: role, page, evalNodes, call result

vars == <<cfg, pc, attempt, idx, browser, page, result, faults, ret, outcome, obs, rv>>

Variants == {"A", "B", "I", "E"}

\* ---------------------------------------------------- pages of a run
Match(kind, i, st) == [kind |-> kind, idx |-> i, s |-> 1, p |-> 1, st |-> st]

\* The capture form of a page: where its email input and its submit control
\* live, each matched by the primary pattern of the first strategy.
\* checkbox: an unchecked consent checkbox stands in the main document.
Form(email, submit, checkbox) ==
  [email |-> email, submit |-> submit, checkbox |-> checkbox]

Forms ==
  { Form({}, {}, FALSE),
    Form({Match("main", 0, "ok")}, {Match("main", 0, "ok")}, FALSE),
    Form({Match("main", 0, "ok")}, {}, FALSE),
    Form({Match("frame", 1, "ok")}, {Match("frame", 1, "ok")}, FALSE),
    Form({Match("shadow", 0, "ok")}, {Match("shadow", 0, "ok")}, FALSE),
    Form({Match("shadow", 0, "ok")}, {}, FALSE),
    Form({Match("main", 0, "ok"), Match("frame", 1, "ok")}, {Match("main", 0, "ok")}, FALSE),
    Form({Match("main", 0, "ok")}, {Match("main", 0, "ok")}, TRUE),
    Form({}, {}, TRUE) }

\* The interstitial of a page: present or not, with or without a close
\* control, holding the page's main-document capture form or not, locking
\* scroll or not; sels is the number of leading entries of a popup selector
\* table that match it. A lazy interstitial is not on the page yet: a scroll
\* may reveal it.
Modal(present, close, form, lock, sels, lazy) ==
  [present |-> present, close |-> close, form |-> form, lock |-> lock,
   sels |-> sels, lazy |-> lazy]

NoModal == Modal(FALSE, FALSE, FALSE, FALSE, 0, FALSE)

Modals ==
  { NoModal,
    Modal(TRUE, TRUE, FALSE, TRUE, 1, FALSE),
    Modal(TRUE, TRUE, FALSE, FALSE, 2, FALSE),
    Modal(TRUE, FALSE, FALSE, TRUE, 1, FALSE),
    Modal(TRUE, TRUE, TRUE, TRUE, 1, FALSE),
    Modal(FALSE, TRUE, FALSE, TRUE, 1, TRUE) }

RunPages ==
  { [modal |-> m, email |-> f.email, submit |-> f.submit, checkbox |-> f.checkbox] :
      m \in Modals, f \in Forms }

HasMain(pg) == \E m \in pg : m.kind = "main"
HasFrame(pg) == \E m \in pg : m.kind = "frame"
HasShadow(pg) == \E m \in pg : m.kind = "shadow"

\* A click on the close control either dismisses the interstitial or leaves
\* it on the page; a dismissed interstitial takes the form it holds with it.
AfterClose(pg, dismissed) ==
  IF ~dismissed THEN pg
  ELSE [modal |-> NoModal,
        email |-> IF pg.modal.form THEN {m \in pg.email : m.kind # "main"} ELSE pg.email,
        submit |-> IF pg.modal.form THEN {m \in pg.submit : m.kind # "main"} ELSE pg.submit,
        checkbox |-> pg.checkbox /\ ~pg.modal.form]

\* A scroll may reveal a lazy interstitial.
AfterScroll(pg, appears) ==
  IF pg.modal.lazy /\ appears
  THEN [pg EXCEPT !.modal.present = TRUE, !.modal.lazy = FALSE]
  ELSE pg

\* A submitted form either stays on the page or is replaced by the page's
\* answer.
AfterSubmit(pg, kind, stays) ==
  IF stays THEN pg
  ELSE [modal |-> IF kind = "main" /\ pg.modal.form THEN NoModal ELSE pg.modal,
        email |-> {m \in pg.email : m.kind # kind},
        submit |-> {m \in pg.submit : m.kind # kind},
        checkbox |-> pg.checkbox /\ kind # "main"]

\* ------------------------------------------------------- DiagnosticEngine
\* errorMessage: the optional field of BQLRunner's DiagnosticData, unset at
\* construction.
NoDiagnostics ==
  [popupDetected |-> FALSE, scrollLocked |-> FALSE, modalActive |-> FALSE,
   errorMessage |-> "unset"]

collectDiagnostics(pg) ==
  [popupDetected |-> pg.modal.present,
   scrollLocked |-> pg.modal.present /\ pg.modal.lock,
   modalActive |-> pg.modal.present]

\* ------------------------------------------------------------- observer
\* A pass of handleCheckboxes over a checkbox: was it unchecked, does it carry
\* an id, did the label click throw, and the clicks that went through.
NoPass ==
  [unchecked |-> FALSE, id |-> FALSE, labelFailed |-> FALSE,
   labelClicks |-> 0, directClicks |-> 0]

NoObs ==
  [attemptsStarted |-> 0,   \* attempts started in the run
   attemptsFailed |-> 0,    \* attempts that ended without success
   submitClicks |-> 0,      \* submit clicks performed in the run
   attemptSubmits |-> 0,    \* submit clicks since the current attempt started
   attemptCloses |-> 0,     \* close clicks since the previous attempt ended
   navCalls |-> 0,          \* goto calls
   navFailures |-> 0,       \* goto calls that threw
   startsAfterNavFailure |-> 0,  \* attempts started after a goto threw
   unclosedLocate |-> FALSE,     \* email located beside a dismissible modal, no close click before
   launches |-> 0,          \* browsers launched
   framesSearched |-> FALSE,     \* the frames were searched in the current resolution
   shadowEarly |-> FALSE,   \* a shadow-tree search started before the frames were searched
   closed |-> FALSE,        \* a close control was clicked in the run
   popupActs |-> 0,         \* modals harvested or dismissed since the previous attempt ended
   popupRuns |-> 0,         \* popup-handler calls since the previous attempt ended
   unhandledLocate |-> FALSE,    \* an email resolution not preceded by exactly one such call
   probe |-> "none",        \* what verifySubmissionSuccess would find after the submit:
                            \* "shown" or "missing" success indicators
   dismissFailed |-> FALSE, \* a close click threw since the previous attempt ended
   discovered |-> FALSE,    \* form discovery started since the previous attempt ended
   dismissAbort |-> FALSE,  \* an attempt ended on a close click that threw, without discovery
   formDismissed |-> FALSE, \* a close click on a modal that holds an email input
   attemptFills |-> 0,      \* email inputs filled since the current attempt started
   earlyFill |-> FALSE,     \* a fill before a submit control was resolved for that input
   attemptChecks |-> 0,     \* checkbox and label clicks since the current attempt started
   submitSought |-> FALSE,  \* a submit control was looked for since the current attempt started
   consentFailed |-> FALSE, \* a checkbox call threw since the current attempt started
   consentAbort |-> FALSE,  \* an attempt ended on such a failure, no submit control looked for
   popupsDone |-> FALSE,    \* the popup strategies ran since the previous attempt ended
   scrollEarly |-> FALSE,   \* a reveal scroll before the popup strategies of the attempt ran
   scrollLate |-> FALSE,    \* a reveal scroll after the attempt's form discovery started
   revealSeen |-> FALSE,    \* the latest reveal stage of the attempt left an interstitial
   scrolledOn |-> FALSE,    \* a reveal stage performed after a stage that left one there
   resolverRaised |-> FALSE,    \* findInIframes or findInShadowDOM threw into its caller
   waited |-> FALSE,        \* the inter-attempt wait completed since the latest attempt started
   undelayedStart |-> FALSE,    \* a second or later attempt started without that wait
   pass |-> NoPass]         \* the latest pass of handleCheckboxes over the checkbox

Err(kind, k) == [kind |-> kind, attempt |-> k]

CanThrow == faults < MaxFaults

Init ==
  /\ cfg \in [variant : Variants, maxRetries : 1 .. MaxRetries,
               evalNodes : EvalNodeModes, page0 : RunPages]
  /\ pc = "init"
  /\ attempt = 0
  /\ idx = 0
  /\ browser = "none"
  /\ page = cfg.page0
  /\ result = [strategiesUsed |-> << >>, errors |-> << >>, diagnostics |-> NoDiagnostics]
  /\ faults = 0
  /\ ret = "none"
  /\ outcome = "running"
  /\ obs = NoObs
  /\ rv = [role |-> "none"]

\* ------------------------------------------------------------- helpers
Used(res, what, where, k) ==
  [res EXCEPT !.strategiesUsed = Append(@, [what |-> what, where |-> where, k |-> k])]

Failed(res, kind, k) == [res EXCEPT !.errors = Append(@, Err(kind, k))]

Count(o, field) == [o EXCEPT ![field] = @ + 1]

\* A step of the run: the new values of what a step can change.
Goes(pcN, attemptN, idxN, pageN, resultN, faultsN, retN, obsN) ==
  /\ pc' = pcN
  /\ attempt' = attemptN
  /\ idx' = idxN
  /\ faults' = faultsN
  /\ ret' = retN
  /\ page' = pageN
  /\ result' = resultN
  /\ obs' = obsN
  /\ UNCHANGED <<cfg, outcome, rv>>

\* The observer at the start of an attempt.
StartAttempt(o) ==
  [o EXCEPT !.attemptsStarted = @ + 1,
            !.attemptSubmits = 0,
            !.attemptFills = 0,
            !.attemptChecks = 0,
            !.submitSought = FALSE,
            !.consentFailed = FALSE,
            !.pass = NoPass,
            !.framesSearched = FALSE,
            !.undelayedStart = @ \/ (o.attemptsStarted > 0 /\ ~o.waited),
            !.waited = FALSE,
            !.startsAfterNavFailure = IF o.navFailures > 0 THEN @ + 1 ELSE @]

\* The observer at the end of a failed attempt.
EndFailed(o) ==
  [o EXCEPT !.attemptsFailed = @ + 1, !.attemptCloses = 0, !.popupRuns = 0,
            !.popupActs = 0,
            !.dismissAbort = @ \/ (o.dismissFailed /\ ~o.discovered),
            !.consentAbort = @ \/ (o.consentFailed /\ ~o.submitSought),
            !.dismissFailed = FALSE,
            !.discovered = FALSE,
            !.popupsDone = FALSE,
            !.revealSeen = FALSE]

\* The observer when the popup handler is called.
PopupHandling(o) == [o EXCEPT !.popupRuns = @ + 1]

\* The observer when an email input is located: was a dismissible modal
\* exposed beside a ready input without a close click in this attempt?
Located(o, pg, ready) ==
  [o EXCEPT !.unclosedLocate =
              @ \/ (pg.modal.present /\ pg.modal.close /\ ~pg.modal.form
                    /\ ready /\ o.attemptCloses = 0),
            !.unhandledLocate = @ \/ (o.popupRuns # 1)]

\* The observer when a close control is clicked on page pg.
Closed(o, pg) ==
  [o EXCEPT !.attemptCloses = @ + 1, !.closed = TRUE, !.popupActs = @ + 1,
            !.formDismissed = @ \/ (pg.modal.form /\ HasMain(pg.email))]

\* The observer when the loop over the popup strategies has run.
PopupsDone(o) == [o EXCEPT !.popupsDone = TRUE]

\* The observer when a stage of the reveal scrolling has scrolled; after: the
\* page the stage leaves.
Scrolled(o, after) ==
  [o EXCEPT !.scrollEarly = @ \/ ~o.popupsDone,
            !.scrollLate = @ \/ o.discovered,
            !.scrolledOn = @ \/ o.revealSeen,
            !.revealSeen = after.modal.present]

\* The observer when the click on a close control throws.
DismissFailed(o) == [o EXCEPT !.dismissFailed = TRUE]

\* The observer when form discovery (the search for an email input) starts.
Discovering(o) == [o EXCEPT !.discovered = TRUE]

\* The observer when the popup handler fills and submits a popup's form.
Harvested(o) == [o EXCEPT !.popupActs = @ + 1]

Clicked(o) == [o EXCEPT !.submitClicks = @ + 1, !.attemptSubmits = @ + 1]

\* The observer when the email value is put into an input; submitResolved:
\* the submit control that goes with the input was resolved before.
Filled(o, submitResolved) ==
  [o EXCEPT !.attemptFills = @ + 1, !.earlyFill = @ \/ ~submitResolved]

\* The observer after the checkbox handling: its clicks, and whether one of
\* its driver calls threw.
Consented(o, clicks, failed) ==
  [o EXCEPT !.attemptChecks = @ + clicks, !.consentFailed = @ \/ failed]

\* The observer after a pass of handleCheckboxes.
Passed(o, pass) == [o EXCEPT !.pass = pass]

\* The observer when findInIframes or findInShadowDOM throws: the frame
\* enumeration and the page.evaluate call stand outside any try block.
Raised(o) == [o EXCEPT !.resolverRaised = TRUE]

\* The observer when the wait before the next attempt has completed.
Waited(o) == [o EXCEPT !.waited = TRUE]

\* The observer when the search for a submit control starts.
SeekSubmit(o) == [o EXCEPT !.submitSought = TRUE]

\* The observer when a resolution starts and when it searches a context.
BeginSearch(o) == [o EXCEPT !.framesSearched = FALSE]

Searched(o, context) ==
  IF context = "iframes" THEN [o EXCEPT !.framesSearched = TRUE]
  ELSE IF context = "shadow" THEN [o EXCEPT !.shadowEarly = @ \/ ~o.framesSearched]
  ELSE o

\* The observer after the passes of one resolution, in their order.
SearchedAll(o, contexts) ==
  LET frames == {i \in DOMAIN contexts : contexts[i] = "iframes"}
      early == \E i \in DOMAIN contexts :
                 /\ contexts[i] = "shadow"
                 /\ ~o.framesSearched
                 /\ \A j \in frames : j > i
  IN [o EXCEPT !.framesSearched = @ \/ (frames # {}),
               !.shadowEarly = @ \/ early]

\* ===================================================== variant A: the run
\* AutomationRunner.runSingleSite, try block: initialize().
A_Initialize ==
  /\ pc = "init" /\ cfg.variant = "A"
  /\ \/ /\ browser' = "open"
        /\ Goes("a_navigate", attempt, idx, page, result, faults, ret, Count(obs, "launches"))
     \/ /\ CanThrow               \* chromium.launch throws
        /\ browser' = browser
        /\ Goes("a_cleanup", attempt, idx, page, result, faults + 1, "throw", obs)
     \/ /\ CanThrow               \* newPage or the viewport/header setup throws
        /\ browser' = "open"
        /\ Goes("a_cleanup", attempt, idx, page, result, faults + 1, "throw",
                Count(obs, "launches"))

\* An executeAutomation that takes every object for an initialized one.
A_InitializedAlways(b) == TRUE

\* this.page, this.diagnostics and this.selectors are set together, by
\* initialize(), right after this.browser.
A_Initialized(b) == b # "none"

\* executeAutomation called without initialize(): the guard on this.page,
\* this.diagnostics and this.selectors returns the result at once.
A_ExecuteDirect ==
  /\ pc = "init" /\ cfg.variant = "E"
  /\ browser' = browser
  /\ IF A_Initialized(browser)
     THEN /\ pc' = "a_navigate"
          /\ UNCHANGED <<result, ret, outcome>>
     ELSE /\ pc' = "done"
          /\ result' = Failed(result, "notInitialized", 0)
          /\ ret' = "false"
          /\ outcome' = "failure"
  /\ UNCHANGED <<cfg, attempt, idx, page, faults, obs, rv>>

\* executeAutomation: goto and the initial collectDiagnostics.
A_Navigate ==
  /\ pc = "a_navigate"
  /\ browser' = browser
  /\ \/ Goes("a_popups", attempt, idx, page,
             [result EXCEPT !.diagnostics = collectDiagnostics(page)],
             faults, ret, Count(obs, "navCalls"))
     \/ /\ CanThrow               \* goto throws: the outer catch of executeAutomation
        /\ Goes("a_cleanup", attempt, idx, page, Failed(result, "automationFailed", 0),
                faults + 1, "false", Count(Count(obs, "navCalls"), "navFailures"))

\* handlePopupsAndModals: the wait for popups to appear.
A_PopupWait ==
  /\ pc = "a_popups"
  /\ browser' = browser
  /\ \/ Goes("a_scroll", attempt, 1, page, result, faults, ret, PopupHandling(obs))
     \/ /\ CanThrow               \* the wait throws: the outer catch of executeAutomation
        /\ Goes("a_cleanup", attempt, idx, page, Failed(result, "automationFailed", 0),
                faults + 1, "false", PopupHandling(obs))

\* triggerPopupsWithScrolling: scroll positions in percent of the page height.
scrollStrategies == <<25, 50, 75, 0>>

\* A reveal loop that never advances to the next scroll position.
A_NextStageStuck(i) == i

\* for (const scrollPercent of scrollStrategies): the next position.
A_NextStage(i) == i + 1

\* One stage of triggerPopupsWithScrolling: scroll, wait, then stop as soon as
\* the diagnostics show an active modal or a scroll lock.
A_ScrollStage ==
  /\ pc = "a_scroll" /\ idx <= Len(scrollStrategies)
  /\ browser' = browser
  /\ \/ \E appears \in BOOLEAN :
          LET after == AfterScroll(page, appears)
              diagnostics == collectDiagnostics(after)
              os == Scrolled(obs, after)
          IN IF diagnostics.modalActive \/ diagnostics.scrollLocked
             THEN Goes("a_strategies", attempt, idx, after, result, faults, ret, os)
             ELSE Goes("a_scroll", attempt, A_NextStage(idx), after, result, faults, ret, os)
     \/ /\ CanThrow               \* the scroll or its wait throws: the outer catch
        /\ Goes("a_cleanup", attempt, idx, page, Failed(result, "automationFailed", 0),
                faults + 1, "false", obs)

A_ScrollDone ==
  /\ pc = "a_scroll" /\ idx > Len(scrollStrategies)
  /\ browser' = browser
  /\ Goes("a_strategies", attempt, idx, page, result, faults, ret, obs)

\* handlePopupsAndModals, the loop over popupStrategies in table order:
\* 'Newsletter Popup' only waits, 'Close Button' clicks what it finds.
A_PopupStrategies ==
  /\ pc = "a_strategies"
  /\ browser' = browser
  /\ LET seen == IF page.modal.present
                 THEN Used(result, "popup", "Newsletter Popup", 0) ELSE result
         closable == page.modal.present /\ page.modal.close
         both == Used(seen, "popup", "Close Button", 0)
     IN \/ /\ ~closable
           /\ Goes("a_attempt", 0, idx, page, seen, faults, ret, PopupsDone(obs))
        \/ /\ closable /\ CanThrow    \* element.click() throws: caught per strategy
           /\ Goes("a_attempt", 0, idx, page, both, faults + 1, ret,
                   PopupsDone(DismissFailed(obs)))
        \/ /\ closable
           /\ \E dismissed \in BOOLEAN :
                LET after == AfterClose(page, dismissed)
                IN \/ Goes("a_attempt", 0, idx, after,
                           [both EXCEPT !.diagnostics = collectDiagnostics(after)],
                           faults, ret, PopupsDone(Closed(obs, page)))
                   \/ /\ CanThrow     \* the wait after the click throws: caught
                      /\ Goes("a_attempt", 0, idx, after, both, faults + 1, ret,
                              PopupsDone(Closed(obs, page)))

\* A retry loop whose bound is off by one.
A_LoopContinuesOffByOne(k, max) == k <= max

\* The loop condition of attemptNewsletterSignup (attempt counts from 0).
A_LoopContinues(k, max) == k < max

\* The catch block of an attempt and the wait before the retry, which is
\* outside the try: when it throws, executeAutomation's catch ends the run.
A_Caught(pg, res, f, o) ==
  LET res2 == Failed(res, "attemptFailed", attempt + 1)
      o2 == EndFailed(o)
  IN \/ Goes("a_attempt", attempt + 1, idx, pg, res2, f, ret,
             IF attempt < cfg.maxRetries - 1 THEN Waited(o2) ELSE o2)
     \/ /\ attempt < cfg.maxRetries - 1 /\ f < MaxFaults
        /\ Goes("a_cleanup", attempt, idx, pg, Failed(res2, "automationFailed", 0),
                f + 1, "false", o2)

\* A missing-input record that carries the zero-based loop index.
A_NoInputZeroBased(res, k) == Failed(res, "noInput", k)

\* errors.push(`Attempt ${attempt + 1}: Email input not found`)
A_NoInput(res, k) == Failed(res, "noInput", k + 1)

\* An attempt whose outcome is the outcome of the success-indicator probe.
A_AttemptGated(verified) == verified

\* After the click and the settle wait: 'return true' comes before the call of
\* verifySubmissionSuccess, which is never reached.
A_AttemptSucceeds(verified) == TRUE

\* The observer after the settle wait: what the probe would find.
Probed(o, verified) == [o EXCEPT !.probe = IF verified THEN "shown" ELSE "missing"]

\* A pass that clicks the checkbox itself after every label click.
A_DirectAlways(labelClicked) == TRUE

\* The `continue` after the label click and its pause: the direct click is
\* reached only when the label click did not go through.
A_DirectFollows(labelClicked) == ~labelClicked

\* handleCheckboxes on page pg with f driver faults so far: what it leaves
\* behind.  Every failure stays inside: the try around a strategy catches
\* isChecked, getAttribute and the direct click, the inner try catches the
\* label click and the pause after it.  The page holds at most one unchecked
\* checkbox; id: it carries an id attribute, so that label[for=id] is clicked
\* first.  Every click that goes through toggles the checkbox.
handleCheckboxes(pg, f) ==
  LET none == [page |-> pg, faults |-> f, clicks |-> 0, failed |-> FALSE, how |-> << >>,
               pass |-> [unchecked |-> pg.checkbox, id |-> FALSE, labelFailed |-> FALSE,
                         labelClicks |-> 0, directClicks |-> 0]]
      \* lt: label.click() throws; dt: checkbox.click() throws
      left(id, lt, dt) ==
        LET labelClicked == id /\ ~lt
            direct == ~id \/ A_DirectFollows(labelClicked)
            l == IF labelClicked THEN 1 ELSE 0
            d == IF direct /\ ~dt THEN 1 ELSE 0
            thrown == (IF lt THEN 1 ELSE 0) + (IF dt THEN 1 ELSE 0)
        IN [page |-> [pg EXCEPT !.checkbox = (l + d) % 2 = 0],
            faults |-> f + thrown,
            clicks |-> l + d,
            failed |-> thrown > 0,
            how |-> (IF l = 1 THEN <<"label">> ELSE << >>)
                    \o (IF d = 1 THEN <<"directly">> ELSE << >>),
            pass |-> [unchecked |-> TRUE, id |-> id, labelFailed |-> lt,
                      labelClicks |-> l, directClicks |-> d]]
      reached(id, lt, dt) ==
        /\ lt => id
        /\ dt => (~id \/ A_DirectFollows(id /\ ~lt))
  IN IF ~pg.checkbox THEN {none}
     ELSE { left(id, lt, dt) : <<id, lt, dt>> \in
              { t \in BOOLEAN \X BOOLEAN \X BOOLEAN :
                  /\ reached(t[1], t[2], t[3])
                  /\ f + (IF t[2] THEN 1 ELSE 0) + (IF t[3] THEN 1 ELSE 0) <= MaxFaults } }
          \cup (IF f < MaxFaults          \* isChecked or getAttribute throws
                THEN {[none EXCEPT !.faults = f + 1, !.failed = TRUE]}
                ELSE {})
          \cup (IF f + 2 <= MaxFaults
                \* the pause after the label click is rejected: the driver has
                \* lost the page, and the direct click is rejected with it
                THEN {[left(TRUE, FALSE, FALSE) EXCEPT !.faults = f + 2, !.failed = TRUE]}
                ELSE {})

RECURSIVE UsedAll(_, _, _)
UsedAll(res, what, wheres) ==
  IF wheres = << >> THEN res
  ELSE UsedAll(Used(res, what, Head(wheres), 0), what, Tail(wheres))

\* An iteration that goes on to fill whatever findEmailInput delivered.
A_FillsAnything(emailInput) == TRUE

\* if (!emailInput) { ...; continue; } and emailInput.fill: the fill is reached
\* with an input only, and it is a function on a Locator only.
A_Fills(emailInput) == emailInput # NotFound /\ emailInput.locator

\* One iteration of the retry loop of attemptNewsletterSignup.
A_Attempt ==
  /\ pc = "a_attempt" /\ A_LoopContinues(attempt, cfg.maxRetries)
  /\ browser' = browser
  /\ \E emailInput \in {findEmailInput(page.email, cfg.evalNodes)},
        submitButton \in {findSubmitButton(page.submit, cfg.evalNodes)},
        o1 \in {Discovering(StartAttempt(obs))} :
     LET o2 == Located(SearchedAll(BeginSearch(o1), emailInput.searched), page,
                       emailInput.el.st = "ok")
         r2 == Used(result, "Email input found", emailInput.where, 0)
         of == Filled(o2, FALSE)      \* fill comes before findSubmitButton
         filled == A_Fills(emailInput)
     IN \/ /\ emailInput = NotFound
           /\ Goes("a_attempt", attempt + 1, idx, page,
                   A_NoInput(result, attempt), faults, ret, EndFailed(o2))
        \/ /\ MainFrom(page.email, "email", 1) = NoElement /\ CanThrow
           \* the iframe enumeration or the shadow-DOM script throws
           /\ A_Caught(page, result, faults + 1, Raised(o1))
        \/ /\ emailInput # NotFound /\ ~emailInput.locator   \* fill is not a function
           /\ A_Caught(page, r2, faults, o2)
        \/ /\ filled /\ CanThrow      \* fill throws
           /\ A_Caught(page, r2, faults + 1, o2)
        \/ /\ filled /\ CanThrow      \* the wait after fill throws
           /\ A_Caught(page, r2, faults + 1, of)
        \/ /\ filled
           /\ \E c \in handleCheckboxes(page, faults) :
                \E rc \in {UsedAll(r2, "Clicked checkbox", c.how)},
                   oc \in {SeekSubmit(Passed(Consented(of, c.clicks, c.failed), c.pass))} :
                \E r3 \in {Used(rc, "Submit button found", submitButton.where, 0)},
                   o3 \in {SearchedAll(BeginSearch(oc), submitButton.searched)} :
                   \/ /\ c.faults < MaxFaults
                      /\ MainFrom(page.submit, "submit", 1) = NoElement
                      \* the iframe enumeration or the shadow-DOM script throws
                      /\ A_Caught(c.page, rc, c.faults + 1, Raised(oc))
                   \/ /\ submitButton = NotFound
                      /\ Goes("a_attempt", attempt + 1, idx, c.page,
                              Failed(rc, "noSubmit", attempt + 1), c.faults, ret,
                              EndFailed(o3))
                   \/ /\ submitButton # NotFound /\ ~submitButton.locator
                      \* click is not a function
                      /\ A_Caught(c.page, r3, c.faults, o3)
                   \/ /\ submitButton # NotFound /\ submitButton.locator
                      /\ c.faults < MaxFaults       \* click throws
                      /\ A_Caught(c.page, r3, c.faults + 1, o3)
                   \/ /\ submitButton # NotFound /\ submitButton.locator
                      /\ \E stays \in BOOLEAN :
                           LET after == AfterSubmit(c.page, submitButton.el.kind, stays)
                           IN \/ \E verified \in BOOLEAN :
                                   IF A_AttemptSucceeds(verified)
                                   THEN Goes("a_cleanup", attempt, idx, after,
                                             Used(r3, "Successful on attempt", "", attempt + 1),
                                             c.faults, "true", Probed(Clicked(o3), verified))
                                   ELSE Goes("a_attempt", attempt + 1, idx, after, r3,
                                             c.faults, ret,
                                             EndFailed(Probed(Clicked(o3), verified)))
                              \/ /\ c.faults < MaxFaults   \* the wait after the click throws
                                 /\ A_Caught(after, r3, c.faults + 1, Clicked(o3))

\* An executeAutomation that reports nothing when the signup returned false.
A_SignupFailedSilent(res) == res

\* errors.push('Newsletter signup failed after all attempts')
A_SignupFailed(res) == Failed(res, "allFailed", 0)

\* attemptNewsletterSignup returns false after the loop.
A_Exhausted ==
  /\ pc = "a_attempt" /\ ~A_LoopContinues(attempt, cfg.maxRetries)
  /\ browser' = browser
  /\ Goes("a_cleanup", attempt, idx, page, A_SignupFailed(result),
          faults, "false", obs)

\* A cleanup that leaves the browser as it found it.
CloseBrowserLeak(b) == b

\* this.browser after cleanup(): closed when there is one.
CloseBrowser(b) == IF b = "open" THEN "closed" ELSE b

Delivered(r) ==
  IF r = "true" THEN "success" ELSE IF r = "false" THEN "failure" ELSE "raised"

\* runSingleSite, finally block: cleanup(), then the result or the exception
\* reaches the caller.
A_Cleanup ==
  /\ pc = "a_cleanup"
  /\ browser' = CloseBrowser(browser)
  /\ pc' = "done"
  /\ outcome' = Delivered(ret)
  /\ UNCHANGED <<cfg, attempt, idx, page, result, faults, ret, obs, rv>>

RunA ==
  \/ A_Initialize \/ A_ExecuteDirect \/ A_Navigate \/ A_PopupWait \/ A_ScrollStage \/ A_ScrollDone
  \/ A_PopupStrategies \/ A_Attempt \/ A_Exhausted \/ A_Cleanup

\* ===================================================== variant B: the run
selectorStrategies ==
  << [name |-> "standard-email-forms", context |-> "main", priority |-> 1],
     [name |-> "newsletter-specific", context |-> "main", priority |-> 2],
     [name |-> "subscription-forms", context |-> "main", priority |-> 3],
     [name |-> "popup-modal-forms", context |-> "main", priority |-> 4],
     [name |-> "iframe-embedded", context |-> "iframe", priority |-> 5],
     [name |-> "shadow-dom-components", context |-> "shadow", priority |-> 6] >>

\* An insertion that puts every strategy in front of the ones sorted so far.
InsertInFront(sorted, x) == <<x>> \o sorted

\* Array.prototype.sort((a, b) => a.priority - b.priority): stable.
RECURSIVE InsertByPriority(_, _)
InsertByPriority(sorted, x) ==
  IF sorted = << >> THEN <<x>>
  ELSE IF x.priority < Head(sorted).priority THEN <<x>> \o sorted
  ELSE <<Head(sorted)>> \o InsertByPriority(Tail(sorted), x)

RECURSIVE SortByPriority(_)
SortByPriority(table) ==
  IF table = << >> THEN << >>
  ELSE InsertByPriority(SortByPriority(SubSeq(table, 1, Len(table) - 1)),
                        table[Len(table)])

sortedStrategies == SortByPriority(selectorStrategies)

\* The loop condition of executeNewsletterSignup (attempt counts from 1).
B_LoopContinues(k, max) == k <= max

\* A catch block of run that only logs the error.
B_RunCaughtSilent(res, message) == res

\* The catch block of run: this.diagnostics.errorMessage = err.message.
B_RunCaught(res, message) == [res EXCEPT !.diagnostics.errorMessage = message]

\* run, try block: initializeBrowser().
B_Initialize ==
  /\ pc = "init" /\ cfg.variant = "B"
  /\ \/ /\ browser' = "open"
        /\ Goes("b_navigate", attempt, idx, page, result, faults, ret, Count(obs, "launches"))
     \/ /\ CanThrow               \* chromium.launch throws: the catch of run
        /\ browser' = browser
        /\ Goes("b_cleanup", attempt, idx, page, B_RunCaught(result, "driver"),
                faults + 1, "false", obs)
     \/ /\ CanThrow               \* newContext or newPage throws
        /\ browser' = "open"
        /\ Goes("b_cleanup", attempt, idx, page, B_RunCaught(result, "driver"),
                faults + 1, "false", Count(obs, "launches"))

\* navigateToTarget: goto, then the settle wait.
B_Navigate ==
  /\ pc = "b_navigate"
  /\ browser' = browser
  /\ \/ Goes("b_attempt", 1, idx, page, result, faults, ret, Count(obs, "navCalls"))
     \/ /\ CanThrow               \* goto throws
        /\ Goes("b_cleanup", attempt, idx, page, B_RunCaught(result, "driver"),
                faults + 1, "false", Count(Count(obs, "navCalls"), "navFailures"))
     \/ /\ CanThrow               \* the settle wait throws
        /\ Goes("b_cleanup", attempt, idx, page, B_RunCaught(result, "driver"),
                faults + 1, "false", Count(obs, "navCalls"))

\* executeNewsletterSignup, start of an iteration: detectScrollLock.
B_AttemptStart ==
  /\ pc = "b_attempt" /\ B_LoopContinues(attempt, cfg.maxRetries)
  /\ browser' = browser
  /\ Goes("b_popups", attempt, 1, page,
          [result EXCEPT !.diagnostics.scrollLocked =
             @ \/ (page.modal.present /\ page.modal.lock)],
          faults, ret, PopupHandling(StartAttempt(obs)))

\* executeNewsletterSignup returns false; run turns it into an error it catches.
B_Exhausted ==
  /\ pc = "b_attempt" /\ ~B_LoopContinues(attempt, cfg.maxRetries)
  /\ browser' = browser
  /\ Goes("b_cleanup", attempt, idx, page,
          B_RunCaught(Failed(result, "allFailed", 0), "allFailed"),
          faults, "false", obs)

\* The catch block of an iteration of executeNewsletterSignup.
B_Caught(pg, res, f, o) ==
  Goes("b_attempt", attempt + 1, idx, pg, res, f, ret, EndFailed(o))

\* handleAdvancedPopups, one popup selector of the table: a matching popup
\* with a capture form and a submit control is filled and submitted, any
\* other matching popup goes to closePopup.
B_PopupSelector ==
  /\ pc = "b_popups"
  /\ browser' = browser
  /\ LET matches == page.modal.present /\ idx <= page.modal.sels
         detected == [result EXCEPT !.diagnostics.popupDetected = TRUE]
         popupForm == page.modal.form /\ HasMain(page.email)
         submitBtn == popupForm /\ HasMain(page.submit)
         os == IF matches /\ popupForm THEN SeekSubmit(obs) ELSE obs
     IN \/ /\ ~matches           \* no later selector matches either
           /\ Goes("b_forms", attempt, 1, page, result, faults, ret, PopupsDone(obs))
        \/ /\ matches /\ submitBtn
           /\ \/ \E stays \in BOOLEAN :
                   Goes("b_forms", attempt, 1, AfterSubmit(page, "main", stays),
                        detected, faults, ret,
                        PopupsDone(Harvested(Clicked(Filled(os, TRUE)))))
              \/ /\ CanThrow      \* fill throws, or click throws after the fill
                 /\ \E o \in {os, Filled(os, TRUE)} :
                      B_Caught(page, detected, faults + 1, o)
        \/ /\ matches /\ ~submitBtn /\ ~page.modal.close
           /\ Goes("b_popups", attempt, idx + 1, page, detected, faults, ret, os)
        \/ /\ matches /\ ~submitBtn /\ page.modal.close
           /\ \/ \E dismissed \in BOOLEAN :
                   LET after == AfterClose(page, dismissed)
                   IN \/ Goes("b_popups", attempt, idx + 1, after, detected, faults, ret,
                              Closed(os, page))
                      \/ /\ CanThrow   \* the wait after the click throws
                         /\ B_Caught(after, detected, faults + 1,
                                     Closed(os, page))
              \/ /\ CanThrow      \* closeBtn.click() throws: closePopup has no try
                 /\ B_Caught(page, detected, faults + 1, DismissFailed(os))

\* Whether a main-context strategy finds an email input (page.$: presence in
\* the DOM, whatever the visibility).
B_MainMatches(name, pg) ==
  IF name = "standard-email-forms" THEN HasMain(pg.email)
  ELSE IF name = "popup-modal-forms"
    THEN pg.modal.present /\ pg.modal.form /\ HasMain(pg.email)
  ELSE FALSE

\* The frames the iframe strategy can submit in, in page.frames() order: the
\* main frame first.
B_Frames(pg) ==
  (IF HasMain(pg.email) /\ HasMain(pg.submit) THEN <<"main">> ELSE << >>)
  \o (IF HasFrame(pg.email) /\ HasFrame(pg.submit) THEN <<"frame">> ELSE << >>)

\* executeFormStrategies, one strategy of the sorted table.
B_Strategy ==
  /\ pc = "b_forms" /\ idx <= Len(sortedStrategies)
  /\ browser' = browser
  /\ LET strategy == sortedStrategies[idx]
         tried == Used(result, "attempted", strategy.name, 0)
         next(f, o, pg) == Goes("b_forms", attempt, idx + 1, pg, tried, f, ret, o)
         done(f, o, pg) ==
           Goes("b_cleanup", attempt, idx, pg,
                Used(tried, "successful", strategy.name, 0), f, "true", o)
         ob == Discovering(Searched(obs, IF strategy.context = "iframe" THEN "iframes"
                                         ELSE strategy.context))
         ready == \E m \in page.email : m.kind = "main" /\ m.st = "ok"
         ol == SeekSubmit(Located(ob, page, ready))   \* findSubmitButton(emailInput)
         oi == IF HasMain(page.email) \/ HasFrame(page.email)
               THEN SeekSubmit(ob) ELSE ob            \* findSubmitButtonInFrame
     IN \/ /\ strategy.context = "main"
           /\ ~(B_MainMatches(strategy.name, page) /\ HasMain(page.submit))
           /\ next(faults, IF B_MainMatches(strategy.name, page) THEN ol ELSE ob, page)
        \/ /\ strategy.context = "main"
           /\ B_MainMatches(strategy.name, page) /\ HasMain(page.submit)
           /\ \/ \E stays \in BOOLEAN :
                   done(faults, Clicked(Filled(ol, TRUE)),
                        AfterSubmit(page, "main", stays))
              \/ /\ CanThrow      \* fill, wait or click throws: caught per strategy
                 /\ \E o \in {ol, Filled(ol, TRUE)} :
                      next(faults + 1, o, page)
        \/ /\ strategy.context = "iframe" /\ B_Frames(page) = << >>
           /\ next(faults, oi, page)
        \/ /\ strategy.context = "iframe" /\ B_Frames(page) # << >>
           /\ \E n \in 1 .. Len(B_Frames(page)) :   \* the first n - 1 frames throw
                /\ faults + (n - 1) <= MaxFaults
                /\ \E stays \in BOOLEAN :
                     done(faults + (n - 1), Clicked(Filled(oi, TRUE)),
                          AfterSubmit(page, B_Frames(page)[n], stays))
        \/ /\ strategy.context = "iframe" /\ B_Frames(page) # << >>
           /\ faults + Len(B_Frames(page)) <= MaxFaults   \* every frame throws
           /\ next(faults + Len(B_Frames(page)), oi, page)
        \/ /\ strategy.context = "shadow"
           /\ ~(HasShadow(page.email) /\ cfg.evalNodes = "value")
           /\ next(faults, ob, page)
        \/ /\ strategy.context = "shadow"
           /\ HasShadow(page.email) /\ cfg.evalNodes = "value"
           /\ \/ /\ HasShadow(page.submit)   \* the script clicks the button
                 /\ \E stays \in BOOLEAN :
                      done(faults, Clicked(Filled(SeekSubmit(ob), TRUE)),
                           AfterSubmit(page, "shadow", stays))
              \/ /\ ~HasShadow(page.submit)  \* the script returns false, unread
                 /\ done(faults, SeekSubmit(ob), page)
              \/ /\ CanThrow      \* host.evaluate throws: handleShadowDomForm is false
                 /\ next(faults + 1, ob, page)

\* executeFormStrategies returned false: on to performAdaptiveScrolling.
B_FormsFailed ==
  /\ pc = "b_forms" /\ idx > Len(sortedStrategies)
  /\ browser' = browser
  /\ Goes("b_scroll", attempt, 1, page, result, faults, ret, obs)

\* performAdaptiveScrolling: scroll positions in percent of the document height.
B_scrollSteps == <<25, 50, 75, 100>>

\* One step of performAdaptiveScrolling: scroll, then wait; nothing looks at
\* the page between two steps.
B_Scroll ==
  /\ pc = "b_scroll" /\ idx <= Len(B_scrollSteps)
  /\ browser' = browser
  /\ \/ \E appears \in BOOLEAN :
          LET after == AfterScroll(page, appears)
          IN Goes("b_scroll", attempt, idx + 1, after, result, faults, ret,
                  Scrolled(obs, after))
     \/ /\ CanThrow              \* the scroll throws: the catch block
        /\ B_Caught(page, result, faults + 1, obs)

\* The wait before the next iteration, the last statement of the try block.
B_Wait ==
  /\ pc = "b_scroll" /\ idx > Len(B_scrollSteps)
  /\ browser' = browser
  /\ \/ Goes("b_attempt", attempt + 1, idx, page, result, faults, ret,
             EndFailed(Waited(obs)))
     \/ /\ CanThrow              \* the wait throws: the catch block
        /\ B_Caught(page, result, faults + 1, obs)

\* run, finally block: cleanup().
B_Cleanup ==
  /\ pc = "b_cleanup"
  /\ browser' = CloseBrowser(browser)
  /\ pc' = "done"
  /\ outcome' = Delivered(ret)
  /\ UNCHANGED <<cfg, attempt, idx, page, result, faults, ret, obs, rv>>

RunB ==
  \/ B_Initialize \/ B_Navigate \/ B_AttemptStart \/ B_Exhausted
  \/ B_PopupSelector \/ B_Strategy \/ B_FormsFailed \/ B_Scroll \/ B_Wait
  \/ B_Cleanup

\* ===================================================== variant I: the run
\* The loop condition of run (attempt counts from 1).
I_LoopContinues(k, max, success) == k <= max /\ ~success

\* waitForSelector: an element that becomes visible.
Visible(pg, kind) == \E m \in pg : m.kind = kind /\ isElementReady(m)

\* run, outer try block: launch, newContext, newPage.
I_Launch ==
  /\ pc = "init" /\ cfg.variant = "I"
  /\ \/ /\ browser' = "open"
        /\ Goes("i_attempt", 1, idx, page, result, faults, ret, Count(obs, "launches"))
     \/ /\ CanThrow               \* chromium.launch throws: the outer catch
        /\ browser' = browser
        /\ Goes("i_cleanup", attempt, idx, page, Failed(result, "critical", 0),
                faults + 1, "false", obs)
     \/ /\ CanThrow               \* newContext or newPage throws
        /\ browser' = "open"
        /\ Goes("i_cleanup", attempt, idx, page, Failed(result, "critical", 0),
                faults + 1, "false", Count(obs, "launches"))

\* The inner catch block of run, then attempt++.
I_Caught(pg, res, f, o) ==
  Goes("i_attempt", attempt + 1, idx, pg, Failed(res, "attemptFailed", attempt),
       f, ret, EndFailed(o))

\* run, one iteration; executeAutomation up to the wait after goto.
I_AttemptStart ==
  /\ pc = "i_attempt" /\ I_LoopContinues(attempt, cfg.maxRetries, FALSE)
  /\ browser' = browser
  /\ LET o1 == Count(StartAttempt(obs), "navCalls")
     IN \/ Goes("i_modals", attempt, idx, page, result, faults, ret, PopupHandling(o1))
        \/ /\ CanThrow            \* goto throws
           /\ I_Caught(page, result, faults + 1, Count(o1, "navFailures"))
        \/ /\ CanThrow            \* the wait after goto throws
           /\ I_Caught(page, result, faults + 1, o1)

\* run after the loop without a success: return success.
I_Exhausted ==
  /\ pc = "i_attempt" /\ ~I_LoopContinues(attempt, cfg.maxRetries, FALSE)
  /\ browser' = browser
  /\ Goes("i_cleanup", attempt, idx, page, result, faults, "false", obs)

\* handleModalsAndPopups: the scroll-lock reading is stored, then each modal
\* strategy clicks its first matching selector (of the three, the page model
\* holds the close control of the interstitial).
I_Modals ==
  /\ pc = "i_modals"
  /\ browser' = browser
  /\ LET read == [result EXCEPT !.diagnostics.scrollLocked =
                    page.modal.present /\ page.modal.lock]
         closable == page.modal.present /\ page.modal.close
     IN \/ /\ CanThrow            \* the scroll-lock evaluate throws
           /\ I_Caught(page, result, faults + 1, obs)
        \/ /\ ~closable
           /\ Goes("i_scroll", attempt, 1, page, read, faults, ret, PopupsDone(obs))
        \/ /\ closable /\ CanThrow    \* element.click() throws
           /\ I_Caught(page, read, faults + 1, DismissFailed(obs))
        \/ /\ closable
           /\ \E dismissed \in BOOLEAN :
                LET after == AfterClose(page, dismissed)
                IN \/ Goes("i_scroll", attempt, 1, after, read, faults, ret,
                           PopupsDone(Closed(obs, page)))
                   \/ /\ CanThrow     \* the wait after the click throws
                      /\ I_Caught(after, read, faults + 1, Closed(obs, page))

\* adaptiveScroll: scroll positions in percent of the page height.
I_scrollSteps == <<30, 60, 90>>

\* adaptiveScroll, one step in its own try block: scroll, wait, then look for
\* a popup; a popup that is seen is recorded and ends the steps.
I_AdaptiveScroll ==
  /\ pc = "i_scroll" /\ idx <= Len(I_scrollSteps)
  /\ browser' = browser
  /\ \/ \E appears \in BOOLEAN :
          LET after == AfterScroll(page, appears)
              os == Scrolled(obs, after)
          IN IF after.modal.present
             THEN Goes("i_direct", attempt, idx, after,
                       [result EXCEPT !.diagnostics.popupDetected = TRUE],
                       faults, ret, os)
             ELSE Goes("i_scroll", attempt, idx + 1, after, result, faults, ret, os)
     \/ /\ CanThrow              \* the scroll or its wait throws: caught, next step
        /\ Goes("i_scroll", attempt, idx + 1, page, result, faults + 1, ret, obs)

\* adaptiveScroll returns after the last step.
I_ScrollDone ==
  /\ pc = "i_scroll" /\ idx > Len(I_scrollSteps)
  /\ browser' = browser
  /\ Goes("i_direct", attempt, idx, page, result, faults, ret, obs)

\* tryDirectSubmission: the email input is filled as soon as it is found, then
\* the submit selectors are tried.
I_TryDirect(falsePc) ==
  LET emailInput == Visible(page.email, "main")
      submitBtn == Visible(page.submit, "main")
      od == Discovering(obs)
      o1 == Located(od, page, \E m \in page.email : m.kind = "main" /\ m.st = "ok")
      of == Filled(o1, FALSE)         \* fill comes before the submit selectors
      \* the opt-in checkbox: isChecked() and check() are awaited outside any try
      checked == [page EXCEPT !.checkbox = FALSE]
      oc == SeekSubmit(Consented(of, IF page.checkbox THEN 1 ELSE 0, FALSE))
  IN \/ /\ ~emailInput
        /\ Goes(falsePc, attempt, idx, page, result, faults, ret, od)
     \/ /\ emailInput /\ CanThrow     \* fill throws
        /\ I_Caught(page, result, faults + 1, o1)
     \/ /\ emailInput /\ page.checkbox /\ CanThrow    \* isChecked() or check() throws
        /\ I_Caught(page, result, faults + 1, Consented(of, 0, TRUE))
     \/ /\ emailInput /\ ~submitBtn
        /\ Goes(falsePc, attempt, idx, checked, result, faults, ret, oc)
     \/ /\ emailInput /\ submitBtn /\ CanThrow   \* submitBtn.click() throws
        /\ I_Caught(checked, result, faults + 1, oc)
     \/ /\ emailInput /\ submitBtn
        /\ \E stays \in BOOLEAN :
             Goes("i_finish", attempt, idx, AfterSubmit(checked, "main", stays),
                  Used(result, "successStrategy", "direct", 0), faults, ret, Clicked(oc))

I_Direct ==
  /\ pc = "i_direct"
  /\ browser' = browser
  /\ I_TryDirect("i_shadow")

\* tryShadowDomSubmission: the direct query of queryShadowDom pierces open
\* shadow roots and finds main-document elements as well.
I_Shadow ==
  /\ pc = "i_shadow"
  /\ browser' = browser
  /\ LET ob == Searched(obs, "shadow")
         emailInput == HasShadow(page.email) \/ Visible(page.email, "main")
         submitBtn == HasShadow(page.submit) \/ Visible(page.submit, "main")
         kind == IF Visible(page.submit, "main") THEN "main" ELSE "shadow"
         of == SeekSubmit(Filled(ob, FALSE))    \* fill comes before the submit query
     IN \/ /\ ~emailInput
           /\ Goes("i_iframe", attempt, idx, page, result, faults, ret, ob)
        \/ /\ emailInput /\ ~submitBtn
           /\ Goes("i_iframe", attempt, idx, page, result, faults, ret, of)
        \/ /\ emailInput /\ CanThrow      \* fill throws
           /\ I_Caught(page, result, faults + 1, ob)
        \/ /\ emailInput /\ submitBtn /\ CanThrow      \* click throws
           /\ I_Caught(page, result, faults + 1, of)
        \/ /\ emailInput /\ submitBtn
           /\ \E stays \in BOOLEAN :
                Goes("i_finish", attempt, idx, AfterSubmit(page, kind, stays),
                     Used(result, "successStrategy", "shadow-dom", 0),
                     faults, ret, Clicked(of))

\* The frames handleIframe can submit in, in page.frames() order: the main
\* frame first.
I_Frames(pg) ==
  (IF Visible(pg.email, "main") /\ Visible(pg.submit, "main") THEN <<"main">> ELSE << >>)
  \o (IF Visible(pg.email, "frame") /\ Visible(pg.submit, "frame")
      THEN <<"frame">> ELSE << >>)

\* handleIframe: each frame in its own try block.
I_Iframe ==
  /\ pc = "i_iframe"
  /\ browser' = browser
  /\ LET ob == Searched(obs, "iframes")
         of == SeekSubmit(Filled(ob, FALSE))   \* fill comes before the submit selectors
         emailInput == Visible(page.email, "main") \/ Visible(page.email, "frame")
     IN
     \/ /\ I_Frames(page) = << >>     \* a frame with an input and no submit is filled
        /\ Goes("i_scrolltrig", attempt, idx, page, result, faults, ret,
                IF emailInput THEN of ELSE ob)
     \/ /\ I_Frames(page) # << >>
        /\ \E n \in 1 .. Len(I_Frames(page)) :    \* the first n - 1 frames throw
             /\ faults + (n - 1) <= MaxFaults
             /\ \E stays \in BOOLEAN :
                  Goes("i_finish", attempt, idx, AfterSubmit(page, I_Frames(page)[n], stays),
                       Used(result, "successStrategy", "iframe", 0),
                       faults + (n - 1), ret, Clicked(of))
     \/ /\ I_Frames(page) # << >>
        /\ faults + Len(I_Frames(page)) <= MaxFaults   \* every frame throws, in fill or in click
        /\ \E o \in {ob, of} :
             Goes("i_scrolltrig", attempt, idx, page, result,
                  faults + Len(I_Frames(page)), ret, o)

\* tryScrollTriggeredSubmission: scroll to the bottom, move the mouse, then
\* tryDirectSubmission again.
I_ScrollTriggered ==
  /\ pc = "i_scrolltrig"
  /\ browser' = browser
  /\ \/ I_TryDirect("i_retry")
     \/ /\ CanThrow               \* the scroll, a wait or the mouse move throws
        /\ I_Caught(page, result, faults + 1, obs)

\* run: executeAutomation returned false; the pause between retries, attempt++.
I_Retry ==
  /\ pc = "i_retry"
  /\ browser' = browser
  /\ \/ Goes("i_attempt", attempt + 1, idx, page, Failed(result, "exhausted", attempt),
             faults, ret, EndFailed(Waited(obs)))
     \/ /\ CanThrow               \* the pause throws: the inner catch
        /\ I_Caught(page, Failed(result, "exhausted", attempt), faults + 1, obs)

\* run: executeAutomation returned true; break, the final wait, return success.
I_Finish ==
  /\ pc = "i_finish"
  /\ browser' = browser
  /\ \/ Goes("i_cleanup", attempt, idx, page, result, faults, "true", obs)
     \/ /\ CanThrow               \* the final wait throws: the outer catch
        /\ Goes("i_cleanup", attempt, idx, page, Failed(result, "critical", 0),
                faults + 1, "false", obs)

\* run, finally block: cleanup().
I_Cleanup ==
  /\ pc = "i_cleanup"
  /\ browser' = CloseBrowser(browser)
  /\ pc' = "done"
  /\ outcome' = Delivered(ret)
  /\ UNCHANGED <<cfg, attempt, idx, page, result, faults, ret, obs, rv>>

RunI ==
  \/ I_Launch \/ I_AttemptStart \/ I_Exhausted \/ I_Modals \/ I_AdaptiveScroll
  \/ I_ScrollDone
  \/ I_Direct \/ I_Shadow \/ I_Iframe \/ I_ScrollTriggered \/ I_Retry
  \/ I_Finish \/ I_Cleanup

Next == RunA \/ RunB \/ RunI

Spec == Init /\ [][Next]_vars

\* A step in which no driver call fails.
Returns == Next /\ faults' = faults

\* Every driver call returns or times out, so a run whose pending call can
\* return takes that step.  Nothing forces a driver call to fail.
FairSpec == Spec /\ WF_vars(Returns)

\* ------------------------------------------- the resolver on its own
\* One call of findEmailInput or findSubmitButton on a page drawn from every
\* page of at most MaxMatches matches; the run's variables stay as they are.
InitR ==
  /\ \/ \E role \in Roles :
          rv \in [role : {role}, pg : Pages(role), evalNodes : EvalNodeModes,
                  called : {FALSE}, out : {NotFound}]
     \/ rv \in [role : {"checkbox"}, pg : CheckboxPages, evalNodes : {"undefined"},
                called : {FALSE}, out : {{}}]
  /\ page = [modal |-> NoModal, email |-> {}, submit |-> {}, checkbox |-> FALSE]
  /\ cfg = [variant |-> "A", maxRetries |-> 1, evalNodes |-> "undefined", page0 |-> page]
  /\ pc = "resolve" /\ attempt = 0 /\ idx = 0 /\ browser = "open"
  /\ result = [strategiesUsed |-> <<>>, errors |-> <<>>, diagnostics |-> NoDiagnostics]
  /\ faults = 0 /\ ret = "none" /\ outcome = "running" /\ obs = NoObs

FoundLabel(role) ==
  IF role = "email" THEN "Email input found" ELSE "Submit button found"

Resolved(out) ==
  /\ rv' = [rv EXCEPT !.called = TRUE, !.out = out]
  /\ result' = IF out = NotFound THEN result
               ELSE Used(result, FoundLabel(rv.role), out.where, 0)
  /\ UNCHANGED <<cfg, pc, attempt, idx, browser, page, faults, ret, outcome, obs>>

R_FindEmailInput ==
  /\ pc = "resolve" /\ ~rv.called /\ rv.role = "email"
  /\ Resolved(findEmailInput(rv.pg, rv.evalNodes))

R_FindSubmitButton ==
  /\ pc = "resolve" /\ ~rv.called /\ rv.role = "submit"
  /\ Resolved(findSubmitButton(rv.pg, rv.evalNodes))

\* handleCheckboxes: findAllElements(strategy) for the checkbox strategy.
R_FindAllElements ==
  /\ pc = "resolve" /\ ~rv.called /\ rv.role = "checkbox"
  /\ rv' = [rv EXCEPT !.called = TRUE,
                      !.out = findAllElements(rv.pg, checkboxStrategies[1])]
  /\ UNCHANGED <<cfg, pc, attempt, idx, browser, page, result, faults, ret, outcome, obs>>

NextR == R_FindEmailInput \/ R_FindSubmitButton \/ R_FindAllElements

SpecR == InitR /\ [][NextR]_vars

\* ------------------------------ two runs through one AutomationRunner
\* AutomationRunner holds one NewsletterAutomation, whose fields this.browser
\* and this.page every runSingleSite call writes and reads.  Two calls are in
\* flight; each step is what one call does between two awaits.  Browser b and
\* page b are the ones launched by run b; 0 is null.
Runs == {1, 2}

InitC ==
  /\ rv = [role |-> "runs",
           at |-> [r \in Runs |-> "idle"],      \* where each call stands
           thisBrowser |-> 0,                   \* this.browser
           thisPage |-> 0,                      \* this.page, this.selectors
           closeCalls |-> [b \in Runs |-> 0],   \* close() calls on browser b
           closedBy |-> [b \in Runs |-> {}],    \* the runs that called them
           foreign |-> FALSE]                   \* a run drove a page it did not open
  /\ page = [modal |-> NoModal, email |-> {}, submit |-> {}, checkbox |-> FALSE]
  /\ cfg = [variant |-> "A", maxRetries |-> 1, evalNodes |-> "undefined", page0 |-> page]
  /\ pc = "runs" /\ attempt = 0 /\ idx = 0 /\ browser = "none"
  /\ result = [strategiesUsed |-> <<>>, errors |-> <<>>, diagnostics |-> NoDiagnostics]
  /\ faults = 0 /\ ret = "none" /\ outcome = "running" /\ obs = NoObs

StepC(next) ==
  /\ rv' = next
  /\ UNCHANGED <<cfg, pc, attempt, idx, browser, page, result, faults, ret, outcome, obs>>

BrowserClosed(b) == rv.closeCalls[b] > 0

\* Run r calls a method of this.page: the call lands on the page the field
\* holds now, and throws when that page's browser is closed.
Drives(r, ok, thrown) ==
  LET p == rv.thisPage
      seen == [rv EXCEPT !.foreign = @ \/ (p # r)]
  IN IF BrowserClosed(p)
     THEN [seen EXCEPT !.at[r] = thrown]
     ELSE [seen EXCEPT !.at[r] = ok]

\* initialize: this.browser = await chromium.launch(...); newPage() is then
\* called on that browser before the next await.
C_Launch ==
  \E r \in Runs :
    /\ pc = "runs" /\ rv.at[r] = "idle"
    /\ StepC([rv EXCEPT !.at[r] = "newpage", !.thisBrowser = r])

\* initialize: this.page = await ...newPage(); the engines are built on it and
\* setViewportSize is called on it before the next await.
C_NewPage ==
  \E r \in Runs :
    /\ pc = "runs" /\ rv.at[r] = "newpage"
    /\ IF BrowserClosed(r)
       THEN StepC([rv EXCEPT !.at[r] = "cleanup"])
       ELSE StepC([rv EXCEPT !.at[r] = "setup", !.thisPage = r])

\* initialize: await this.page.setExtraHTTPHeaders(...).
C_Setup ==
  \E r \in Runs :
    /\ pc = "runs" /\ rv.at[r] = "setup"
    /\ StepC(Drives(r, "navigate", "cleanup"))

\* executeAutomation: await this.page.goto(...).
C_Navigate ==
  \E r \in Runs :
    /\ pc = "runs" /\ rv.at[r] = "navigate"
    /\ StepC(Drives(r, "signup", "cleanup"))

\* executeAutomation: popup handling and the signup attempts on this.page.
C_Signup ==
  \E r \in Runs :
    /\ pc = "runs" /\ rv.at[r] = "signup"
    /\ StepC(Drives(r, "cleanup", "cleanup"))

\* runSingleSite, finally: cleanup() closes this.browser when it is set.
C_Cleanup ==
  \E r \in Runs :
    /\ pc = "runs" /\ rv.at[r] = "cleanup"
    /\ LET b == rv.thisBrowser
       IN IF b = 0 THEN StepC([rv EXCEPT !.at[r] = "done"])
          ELSE StepC([rv EXCEPT !.at[r] = "done",
                                !.closeCalls[b] = @ + 1,
                                !.closedBy[b] = @ \cup {r}])

NextC == C_Launch \/ C_NewPage \/ C_Setup \/ C_Navigate \/ C_Signup \/ C_Cleanup

SpecC == InitC /\ [][NextC]_vars

\* --------------------------------------------- AutomationRunner.runBatch
\* A batch is a list of sites, named by their urls; the same url may come
\* twice.  Each site is run by runSingleSite, which returns a result with
\* success true or false, or throws.
Urls == {"u1", "u2"}

InitBatch ==
  /\ \E n \in 0 .. MaxSites :
       rv \in [role : {"batch"}, sites : [1 .. n -> Urls], i : {1},
               results : {<< >>},      \* const results: AutomationResult[] = []
               ran : {<< >>},          \* how the run of each site ended
               at : {"loop"}]
  /\ page = [modal |-> NoModal, email |-> {}, submit |-> {}, checkbox |-> FALSE]
  /\ cfg = [variant |-> "A", maxRetries |-> 1, evalNodes |-> "undefined", page0 |-> page]
  /\ pc = "batch" /\ attempt = 0 /\ idx = 0 /\ browser = "none"
  /\ result = [strategiesUsed |-> <<>>, errors |-> <<>>, diagnostics |-> NoDiagnostics]
  /\ faults = 0 /\ ret = "none" /\ outcome = "running" /\ obs = NoObs

\* The result pushed by the catch block of runBatch.
Placeholder(url) == [url |-> url, success |-> FALSE, errors |-> <<"Runner error">>]

\* A catch block that only logs the error.
CatchLogOnly(results, url) == results

\* catch (error) { ...; results.push({success: false, url: site.url, ...}) }
CatchPush(results, url) == Append(results, Placeholder(url))

\* One iteration of the loop over the sites: runSingleSite, push, and the
\* pause between sites (a timer promise, which cannot reject); or the catch
\* block when runSingleSite threw.
Batch_Site ==
  /\ pc = "batch" /\ rv.at = "loop" /\ rv.i <= Len(rv.sites)
  /\ \E out \in {Delivered(r) : r \in {"true", "false", "throw"}} :
       LET url == rv.sites[rv.i]
           returned == [url |-> url, success |-> out = "success",
                        errors |-> IF out = "success" THEN << >> ELSE <<"Automation">>]
       IN rv' = [rv EXCEPT !.i = @ + 1,
                           !.ran = Append(@, out),
                           !.results = IF out = "raised" THEN CatchPush(@, url)
                                       ELSE Append(@, returned)]
  /\ UNCHANGED <<cfg, pc, attempt, idx, browser, page, result, faults, ret, outcome, obs>>

\* After the loop: logBatchSummary(results); return results.
Batch_Return ==
  /\ pc = "batch" /\ rv.at = "loop" /\ rv.i > Len(rv.sites)
  /\ rv' = [rv EXCEPT !.at = "returned"]
  /\ UNCHANGED <<cfg, pc, attempt, idx, browser, page, result, faults, ret, outcome, obs>>

NextBatch == Batch_Site \/ Batch_Return

SpecBatch == InitBatch /\ [][NextBatch]_vars

\* ================================================================ claims
Done == pc = "done"

\* C1: in every variant the number of attempts started never exceeds the
\* configured maximum, and a run whose attempts have all failed ends with a
\* failure outcome.
C1_AttemptBound ==
  /\ obs.attemptsStarted <= cfg.maxRetries
  /\ (Done /\ obs.attemptsFailed = cfg.maxRetries) => outcome = "failure"

C1_Witness ==
  Done /\ cfg.maxRetries = MaxRetries /\ obs.attemptsFailed = cfg.maxRetries
  /\ outcome = "failure"

\* C2: variant A, on a page where no selector matches an email input in any
\* context and with a driver that does not throw: exactly maxRetries
\* attempts, each recording 'Attempt k: Email input not found', then
\* success = false.
NoInputErrors(n) == [k \in 1 .. n |-> Err("noInput", k)]

C2_NoInputExhausts ==
  (Done /\ cfg.variant = "A" /\ cfg.page0.email = {} /\ faults = 0)
    => /\ obs.attemptsStarted = cfg.maxRetries
       /\ SubSeq(result.errors, 1, cfg.maxRetries) = NoInputErrors(cfg.maxRetries)
       /\ Len(result.errors) = cfg.maxRetries + 1
       /\ outcome = "failure"

C2_Witness ==
  Done /\ cfg.variant = "A" /\ cfg.page0.email = {} /\ faults = 0
  /\ cfg.maxRetries = MaxRetries /\ obs.attemptsStarted = MaxRetries

\* C3: within one attempt at most one submit click is performed, counting
\* the popup handler's submit and the form discovery's (with a driver that
\* does not throw).
C3_OneSubmitPerAttempt == faults = 0 => obs.attemptSubmits <= 1

\* C4: across a whole run the submit control is clicked at most once, also
\* when a driver call fails after the click.
C4_OneSubmitPerRun == obs.submitClicks <= 1

\* C5: when a dismissible modal and a ready email input are exposed together,
\* the close control is clicked before the email input is located, and at
\* most once in the attempt (with a driver that does not throw).
C5_PopupFirst ==
  faults = 0 => (~obs.unclosedLocate /\ obs.attemptCloses <= 1)

\* C6: a browser that was launched is eventually closed, on every exit path.
C6_BrowserReleased == (browser = "open") ~> (browser = "closed")

C6_Witness == Done /\ browser = "closed" /\ outcome # "success" /\ faults > 0

\* C7: the entry point of a run never raises to its caller.
C7_NeverRaises == outcome # "raised"

\* C8: once a goto has thrown, the run ends in failure without another goto
\* and without starting an attempt.
C8_NavFailureAborts ==
  obs.navFailures > 0
    => /\ obs.navCalls = 1
       /\ obs.startsAfterNavFailure = 0
       /\ Done => outcome = "failure"

\* C9: every run reaches a terminal outcome.
C9_Terminates == <>Done

C9_Witness ==
  Done /\ cfg.maxRetries = MaxRetries /\ obs.attemptsStarted = MaxRetries
  /\ outcome \in {"success", "failure"}

\* A pattern of a strategy that finds a usable element on the main page and a
\* ready element in some iframe.
InMainAndFrame(pg, role) ==
  \E s \in 1 .. Len(StrategiesOf(role)), p \in 1 .. MaxPat, i \in 1 .. MaxFrames :
    /\ Lookup(pg, "main", 0, s, p).st = "ok"
    /\ isElementReady(Lookup(pg, "frame", i, s, p))

\* C10: when a pattern of a strategy matches a usable element both on the main
\* page and in an iframe, findEmailInput / findSubmitButton deliver a
\* main-page element, push '... found on main page', and do not run the
\* iframe pass.
C10_MainOverFrame ==
  (rv.role \in Roles /\ rv.called /\ InMainAndFrame(rv.pg, rv.role))
    => /\ rv.out.el.kind = "main" /\ rv.out.el.st = "ok"
       /\ rv.out.where = "main page"
       /\ rv.out.searched = <<"main">>
       /\ result.strategiesUsed = <<[what |-> FoundLabel(rv.role), where |-> "main page", k |-> 0]>>

C10_Witness ==
  /\ rv.role \in Roles /\ rv.called /\ InMainAndFrame(rv.pg, rv.role)
  /\ rv.out.where = "main page"
  /\ \E m \in rv.pg : m.kind = "frame" /\ m.st = "ok" /\ m.p = rv.out.el.p
\* C11: in every variant the frames are searched before the shadow trees: no
\* shadow-tree search starts in an attempt before the frames were searched.
C11_FrameBeforeShadow == ~obs.shadowEarly
\* C12: whenever findEmailInput / findSubmitButton deliver an element (from
\* findElement, findInIframes or findInShadowDOM), that element has a
\* bounding box; a ready element without a box, or one that is not rendered,
\* is never delivered.
C12_PositiveBox ==
  (rv.role \in Roles /\ rv.called /\ rv.out # NotFound) => rv.out.el.st = "ok"
\* The email input is resolvable only inside iframe i: no main-document match
\* is usable, and iframe i is the one iframe holding a ready match.
OnlyInFrame(pg, i) ==
  /\ \A m \in pg : m.kind = "main" => m.st # "ok"
  /\ \E m \in pg : m.kind = "frame" /\ m.idx = i /\ isElementReady(m)
  /\ \A m \in pg : (m.kind = "frame" /\ isElementReady(m)) => m.idx = i

\* C13: when the email input is resolvable only inside one iframe,
\* findEmailInput returns the element of that iframe as a Locator and pushes
\* 'Email input found in iframe', never '... found on main page'.
C13_OnlyInFrame ==
  \A i \in 1 .. MaxFrames :
    (rv.role = "email" /\ rv.called /\ OnlyInFrame(rv.pg, i))
      => /\ rv.out.el.kind = "frame" /\ rv.out.el.idx = i
         /\ rv.out.el \in rv.pg
         /\ rv.out.locator
         /\ result.strategiesUsed =
              <<[what |-> "Email input found", where |-> "iframe", k |-> 0]>>

C13_Witness ==
  /\ rv.role = "email" /\ rv.called /\ OnlyInFrame(rv.pg, MaxFrames)
  /\ \E m \in rv.pg : m.kind = "main"
  /\ rv.out.where = "iframe"
\* The email input and the submit button resolve on the main document at
\* once: both are usable there and no interstitial holds the form.
ResolvesOnMain(pg) ==
  /\ \E m \in pg.email : m.kind = "main" /\ m.st = "ok"
  /\ \E m \in pg.submit : m.kind = "main" /\ m.st = "ok"
  /\ ~pg.modal.form

Entry(what, where, k) == [what |-> what, where |-> where, k |-> k]

Contains(seq, x) == \E i \in 1 .. Len(seq) : seq[i] = x

\* C14: when the email input and the submit button resolve on the main
\* document at once and no driver call throws, the run of runSingleSite
\* returns success on attempt 1, strategiesUsed holds the email-input entry
\* and the submit-button entry, and the submit control is clicked exactly
\* once in the run.
C14_MainFormSucceeds ==
  (Done /\ cfg.variant = "A" /\ faults = 0 /\ ResolvesOnMain(cfg.page0))
    => /\ outcome = "success"
       /\ obs.attemptsStarted = 1
       /\ Contains(result.strategiesUsed, Entry("Email input found", "main page", 0))
       /\ Contains(result.strategiesUsed, Entry("Submit button found", "main page", 0))
       /\ Contains(result.strategiesUsed, Entry("Successful on attempt", "", 1))
       /\ obs.submitClicks = 1

C14_Witness ==
  /\ Done /\ cfg.variant = "A" /\ faults = 0 /\ ResolvesOnMain(cfg.page0)
  /\ cfg.page0.modal.present /\ cfg.maxRetries = MaxRetries
  /\ outcome = "success" /\ obs.submitClicks = 1
\* An overflow-locked overlay with a close control and no inner email field.
Overlay(pg) ==
  pg.modal.present /\ pg.modal.close /\ pg.modal.lock /\ ~pg.modal.form

\* C15: when the page shows an overflow-locked overlay with a close control
\* and no inner email field (and no driver call throws), the close control
\* is clicked, the run goes on to email-input discovery, and the diagnostics
\* at run end have popupDetected = true and scrollLocked = true.
C15_OverlayDiagnostics ==
  (Done /\ faults = 0 /\ Overlay(cfg.page0))
    => /\ obs.closed
       /\ obs.attemptsStarted >= 1
       /\ result.diagnostics.popupDetected
       /\ result.diagnostics.scrollLocked
\* C16: two runs started through the same runner share no mutable state:
\* each run drives only the page it opened itself, and each launched browser
\* is closed exactly once, by the run that launched it.
C16_RunsShareNothing ==
  rv.role = "runs"
    => /\ ~rv.foreign
       /\ \A b \in Runs : rv.closeCalls[b] <= 1 /\ rv.closedBy[b] \subseteq {b}
       /\ (\A r \in Runs : rv.at[r] = "done")
            => \A b \in Runs : rv.closeCalls[b] = 1
C18_DiagnosticsAppendOnly ==
  [][ /\ result.diagnostics.popupDetected => result'.diagnostics.popupDetected
      /\ result.diagnostics.scrollLocked => result'.diagnostics.scrollLocked ]_vars
\* C19: popup handling runs exactly once in every attempt, before that
\* attempt's email-input resolution; the second and later attempts start with
\* popup handling again.
C19_PopupHandlingEveryAttempt == ~obs.unhandledLocate /\ obs.popupRuns <= 1
\* C20: within one attempt the popup handler acts on the first modal it
\* detects only: after one harvest or dismiss click it performs no further
\* dismiss click in that attempt.
C20_FirstModalOnly == obs.popupActs <= 1
\* C21: a click on a popup's close control that throws never aborts the
\* attempt: no attempt ends after such a failure without having started form
\* discovery.
C21_DismissFailureTolerated == ~obs.dismissAbort
\* C22: a detected modal that holds an email-capture input is never
\* dismissed: no close control is clicked in a modal in which an email input
\* is found.
C22_FormModalKept == ~obs.formDismissed
\* C23: the email value is filled only after a submit control has been
\* resolved in the same attempt; an attempt that ends because no submit
\* control was found has filled no email input.
C23_FillAfterSubmitResolved ==
  /\ ~obs.earlyFill
  /\ (result.errors # << >> /\ result.errors[Len(result.errors)].kind = "noSubmit")
       => obs.attemptFills = 0
\* The attempt in progress or just ended has left the page alone: no fill, no
\* checkbox or label click, no submit click, no search for a submit control.
Untouched ==
  /\ obs.attemptFills = 0
  /\ obs.attemptChecks = 0
  /\ obs.attemptSubmits = 0
  /\ ~obs.submitSought

\* C24: an attempt in which no email-role strategy resolves in any context
\* ends as noInput without side effects on the page: an attempt recorded as
\* 'Email input not found' has left the page alone, and so has every attempt
\* on a page without any email input.
C24_NoInputNoEffect ==
  /\ (result.errors # << >> /\ result.errors[Len(result.errors)].kind = "noInput")
       => Untouched
  /\ cfg.page0.email = {} => Untouched

C24_Witness ==
  /\ cfg.variant = "A" /\ cfg.page0.checkbox /\ cfg.page0.email = {}
  /\ result.errors # << >> /\ result.errors[Len(result.errors)].kind = "noInput"
  /\ obs.attemptsStarted = MaxRetries
\* C25: in every attempt the stages run in the order popup handling, staged
\* reveal scrolling, email-input resolution: no reveal scroll is performed
\* before the attempt's popup strategies have run, and none after the
\* attempt's first email-input lookup.
C25_StageOrder == ~obs.scrollEarly /\ ~obs.scrollLate
\* C28: the adaptive revealer stops at the first scroll stage after which an
\* interstitial is on the page: no further stage of the same reveal is
\* performed after a stage that left one there.
C28_RevealStopsOnDetection == ~obs.scrolledOn
\* The primary pattern of strategy s finds a usable element on the main page
\* or in an iframe.
PrimaryUsable(pg, s) ==
  \E m \in pg : m.s = s /\ m.p = 1 /\ m.kind \in {"main", "frame"} /\ m.st = "ok"

\* C26: resolution tries the primary pattern in every context before any
\* fallback pattern in any context: when the primary pattern of a strategy
\* finds a usable element on the main page or in an iframe, the element that
\* findEmailInput / findSubmitButton deliver for that strategy is a match of
\* the primary pattern, never of a fallback.
C26_PrimaryBeatsFallback ==
  (rv.role \in Roles /\ rv.called /\ rv.out # NotFound
     /\ PrimaryUsable(rv.pg, rv.out.el.s))
    => rv.out.el.p = 1
\* C27: element resolution never raises: a query failure in a pattern/context
\* combination is swallowed, and findElement, findInIframes and
\* findInShadowDOM return an absent match instead of throwing into the
\* orchestrator.
C27_ResolutionNeverRaises == ~obs.resolverRaised
\* C29: between every two consecutive attempts of a run the inter-attempt
\* delay is waited, whatever the reason the earlier attempt failed: no second
\* or later attempt starts without that wait having completed.
C29_DelayBetweenAttempts == ~obs.undelayedStart
\* C30: consent handling is best-effort: a driver failure while handling
\* checkboxes never aborts the attempt; no attempt ends after such a failure
\* without having looked for the submit control.
C30_ConsentBestEffort == ~obs.consentAbort
C32_PriorityOrder ==
  cfg.variant = "B" =>
    LET used == result.strategiesUsed
        IsAttempted(e) == e.what = "attempted"
        attempted == SelectSeq(used, IsAttempted)
        n == Len(sortedStrategies)
        Declared(x) == CHOOSE i \in 1 .. Len(selectorStrategies) : selectorStrategies[i] = x
    IN /\ \A i \in 1 .. Len(attempted) :
            attempted[i].where = sortedStrategies[((i - 1) % n) + 1].name
       /\ n = Len(selectorStrategies)
       /\ \A i \in 1 .. n : \E j \in 1 .. n : selectorStrategies[j] = sortedStrategies[i]
       /\ \A i, j \in 1 .. n :
            i < j =>
              \/ sortedStrategies[i].priority < sortedStrategies[j].priority
              \/ /\ sortedStrategies[i].priority = sortedStrategies[j].priority
                 /\ Declared(sortedStrategies[i]) < Declared(sortedStrategies[j])
       /\ \A i \in 1 .. Len(used) :
            used[i].what = "successful"
              => /\ i = Len(used)
                 /\ i > 1 /\ used[i - 1] = [used[i] EXCEPT !.what = "attempted"]
                 /\ pc \in {"b_cleanup", "done"} /\ ret = "true"

C32_Witness ==
  /\ cfg.variant = "B" /\ Done /\ outcome = "success"
  /\ Len(result.strategiesUsed) > Len(sortedStrategies) + 1
  /\ result.strategiesUsed[Len(result.strategiesUsed)] =
       [what |-> "successful", where |-> "iframe-embedded", k |-> 0]
\* C33: a completed submit step always makes its attempt successful: once a
\* fill and a submit click have gone through (a capture form submitted by the
\* popup handler included, and with a driver that does not throw), the run is
\* on its way out with success: no further search, no further attempt.
C33_SubmitEndsRun ==
  (faults = 0 /\ obs.submitClicks > 0)
    => /\ pc \in {"a_cleanup", "b_cleanup", "i_finish", "i_cleanup", "done"}
       /\ Done => outcome = "success"
\* C34: findElement returns the match of the first pattern, primary first and
\* then the fallbacks in order, whose first match is ready and has a bounding
\* box; no later pattern has a say; it returns null exactly when no pattern
\* passes both checks.  A main-page result of findEmailInput /
\* findSubmitButton is what findElement returned for its strategy.
C34_FirstUsablePattern ==
  (rv.role \in Roles /\ rv.called) =>
    /\ \A s \in 1 .. Len(StrategiesOf(rv.role)) :
         LET patterns == SelectorsToTry(StrategiesOf(rv.role)[s])
             match(p) == Lookup(rv.pg, "main", 0, s, p)
             passes(p) == isElementReady(match(p)) /\ match(p).st # "nobox"
             element == findElement(rv.pg, rv.role, s)
         IN /\ element = NoElement <=> \A p \in patterns : ~passes(p)
            /\ element # NoElement =>
                 /\ element.p \in patterns /\ element = match(element.p)
                 /\ passes(element.p)
                 /\ \A q \in patterns : q < element.p => ~passes(q)
    /\ rv.out.where = "main page"
         => /\ rv.out.el = findElement(rv.pg, rv.role, rv.out.el.s)
            /\ \A s \in 1 .. Len(StrategiesOf(rv.role)) :
                 s < rv.out.el.s => findElement(rv.pg, rv.role, s) = NoElement

C34_Witness ==
  /\ rv.role = "email" /\ rv.called /\ rv.out.where = "main page"
  /\ rv.out.el.p = 2
  /\ Lookup(rv.pg, "main", 0, rv.out.el.s, 1).st = "nobox"
\* C35: run of BQLRunner returns true only if a submit control was clicked
\* during the run; the shadow-DOM strategy reports success only when the
\* in-page script found the email input and a button and clicked the button.
C35_TrueMeansClicked ==
  (cfg.variant = "B" /\ ret = "true") => obs.submitClicks > 0
\* C36: every result that executeAutomation returns with success = false
\* carries at least one entry in errors, and the last one explains the
\* failure: not initialized, an exception of the automation, or the signup
\* failed after all attempts.
C36_FailureExplained ==
  (cfg.variant \in {"A", "E"} /\ ret = "false")
    => /\ result.errors # << >>
       /\ result.errors[Len(result.errors)].kind
            \in {"notInitialized", "automationFailed", "allFailed"}

C36_Witness ==
  /\ cfg.variant = "A" /\ Done /\ outcome = "failure" /\ faults = 0
  /\ cfg.maxRetries = MaxRetries
  /\ result.errors[Len(result.errors)].kind = "allFailed"

\* C38: executeAutomation called on an automation that was never initialized
\* returns a result with success = false and the 'Automation not initialized'
\* error as its only entry, without throwing and without issuing any driver
\* call: no navigation, no query, no click, and the page is as it was.
C38_NotInitialized ==
  cfg.variant = "E"
    => /\ obs = NoObs /\ faults = 0 /\ page = cfg.page0 /\ browser = "none"
       /\ result.strategiesUsed = << >>
       /\ Done => /\ outcome = "failure" /\ ret = "false"
                   /\ result.errors = <<Err("notInitialized", 0)>>
       /\ ~Done => pc = "init" /\ result.errors = << >>

C38_Witness ==
  /\ cfg.variant = "E" /\ Done /\ outcome = "failure"
  /\ cfg.page0.email # {} /\ cfg.page0.modal.present
\* C37: runBatch returns exactly one result per input site, in input order,
\* however the individual runs end: a site whose run throws gets the failed
\* placeholder result, and the sites after it are still processed.
C37_OneResultPerSite ==
  rv.role = "batch" =>
    /\ Len(rv.results) = rv.i - 1 /\ Len(rv.ran) = rv.i - 1
    /\ \A k \in 1 .. Len(rv.results) :
         /\ rv.results[k].url = rv.sites[k]
         /\ rv.ran[k] = "raised" => rv.results[k] = Placeholder(rv.sites[k])
         /\ rv.ran[k] # "raised" => rv.results[k].success = (rv.ran[k] = "success")
    /\ rv.at = "returned" => Len(rv.results) = Len(rv.sites)

C37_Witness ==
  /\ rv.role = "batch" /\ rv.at = "returned" /\ Len(rv.sites) = MaxSites
  /\ rv.ran[1] = "raised" /\ rv.ran[2] = "success" /\ rv.sites[1] # rv.sites[2]
  /\ rv.results[2].success
\* C39: after run of BQLRunner, diagnostics.errorMessage is set if and only
\* if run returned false: exhaustion is turned into an error whose message is
\* recorded, and a run that returns true records no message.
C39_ErrorMessageIffFalse ==
  cfg.variant = "B" =>
    LET errorMessage == result.diagnostics.errorMessage
    IN /\ ret = "true" => errorMessage = "unset"
       /\ ret = "false" => errorMessage # "unset"
       /\ ret = "none" => errorMessage = "unset"
       /\ Done => (errorMessage # "unset" <=> outcome = "failure")
       /\ (Done /\ obs.attemptsFailed = cfg.maxRetries) => errorMessage = "allFailed"

C39_Witness ==
  /\ cfg.variant = "B" /\ Done /\ outcome = "failure" /\ faults = 0
  /\ obs.attemptsFailed = MaxRetries
  /\ result.diagnostics.errorMessage = "allFailed"
\* C40: findAllElements returns the matches of exactly one pattern: all
\* matches of the primary pattern when it matches at least one element,
\* otherwise all matches of the first fallback, in order, that matches at
\* least one element, otherwise the empty list; the matches of different
\* patterns are never merged.
C40_OnePatternOnly ==
  (rv.role = "checkbox" /\ rv.called) =>
    LET patterns == SelectorsToTry(checkboxStrategies[1])
        matching == { p \in patterns : rv.pg[p] # {} }
    IN /\ matching = {} => rv.out = {}
       /\ matching # {} =>
            rv.out = rv.pg[CHOOSE p \in matching : \A q \in matching : p <= q]

C40_Witness ==
  /\ rv.role = "checkbox" /\ rv.called
  /\ rv.pg[1] = {} /\ rv.pg[2] = {} /\ rv.pg[3] = {1} /\ rv.pg[4] = {1, 2}
  /\ rv.out = {1}
====
